---------------------------- MODULE Spec2Model ----------------------------
(***************************************************************************)
(* hashreport: the worker pools of hashreport/utils/thread_pool.py and     *)
(* hashreport/utils/threading.py (two classes, both named                  *)
(* ThreadPoolManager), the concurrent.futures executor they drive and the  *)
(* progress reporter they advance.                                         *)
(*                                                                         *)
(* Two client threads use one pool object.  Thread A calls process_items;  *)
(* thread B owns the pool's life cycle (__enter__/start, __exit__/shutdown)*)
(* and may set the shutdown event directly, at any moment, also while A is *)
(* inside process_items.  The executor's worker threads run the units.     *)
(* A context is entered only while it is not entered (the with statement   *)
(* pairs __enter__ with __exit__); __exit__ and shutdown() are called in   *)
(* every state.                                                            *)
(***************************************************************************)
EXTENDS Integers, Sequences, FiniteSets, TLC

(* ------------------------------ bounds -------------------------------- *)
MaxItems == 2      \* longest batch handed to process_items
MaxWorkers == 2    \* largest initial_workers given to the constructor
MaxThreads == 2    \* most threads that update one ProgressBar
MaxUpdates == 2    \* most update() calls one thread makes
MaxPatterns == 2   \* longest pattern list given to the filter
MaxDropped == 1    \* most executors a pool has dropped while their units run

(* ---------------------------- the program ----------------------------- *)
Impls == {"thread_pool", "threading"}
Outcomes == {"value", "none", "raise"}   \* what process_func does on an item
\* executor is None
NoExec == [max_workers |-> 0, shut |-> TRUE, none |-> TRUE, id |-> 0]

VARIABLES
  impl,             \* which ThreadPoolManager class the pool is
  initial_workers,  \* self.initial_workers
  progress_bar,     \* thread_pool: a reporter was passed to __init__
  executor,         \* self.executor / self._executor: NoExec or an executor
  event,            \* self._shutdown_event / self._shutdown
  lock,             \* threading: holder of self._executor_lock
  units,            \* the work items given to executors: [item, st, out, ex]
  pcA,              \* thread A's position inside process_items
  call,             \* process_items' frame and what happened during the call
  ret,              \* how the last process_items call ended
  pcB,              \* thread B's position inside __enter__ / __exit__
  last,             \* thread B's last operation on the pool and how it went
  scan,             \* walk_directory_and_log: its arguments, the tree, its locals
  lib               \* a call of filters.should_process_file, of
                    \* hasher.get_file_reader, or the threads updating a
                    \* ProgressBar: its arguments and locals

vars == <<impl, initial_workers, progress_bar, executor, event, lock, units,
          pcA, call, ret, pcB, last, scan, lib>>

(* The frame of a process_items call on the items <<1, ..., n>>.  idx is    *)
(* the next item to submit, futures the submitted units in order, yielded   *)
(* those as_completed has handed out.  updates and closes count the calls   *)
(* of the reporter's update() and finish()/close() made by this call; sig   *)
(* records that the shutdown event was set when the call began or was set   *)
(* while it ran, noexec that the pool had no executor when the call began,  *)
(* late how many units were submitted while the event was set.              *)
Frame(n, s, x) ==
  [n |-> n, idx |-> 1, futures |-> <<>>, yielded |-> {}, results |-> <<>>,
   exc |-> "", updates |-> 0, closes |-> 0, sig |-> s, noexec |-> x,
   late |-> 0]
NoRet == [kind |-> "none", results |-> <<>>, exc |-> ""]

(* An operation of thread B: its name, the attribute asked for (getattr),   *)
(* whether the pool had no executor when it began, and what it raised.      *)
Op(name, attr, raised) ==
  [op |-> name, attr |-> attr, noexec |-> executor.none,
   raised |-> IF raised THEN "AttributeError" ELSE ""]

(* The attributes an instance has: those __init__ assigns and the methods  *)
(* the class defines.                                                      *)
PoolAttrs(i) ==
  IF i = "thread_pool"
  THEN {"initial_workers", "executor", "_shutdown_event", "progress_bar",
        "__enter__", "__exit__", "process_items"}
  ELSE {"initial_workers", "_executor_lock", "_executor", "_shutdown",
        "__enter__", "__exit__", "start", "shutdown", "is_shutting_down",
        "process_items"}

(* The frame of walk_directory_and_log.  Arguments and environment: tree   *)
(* (the files that exist under the root), walk (the order in which os.walk  *)
(* yields them), specific_iter (the order in which the set specific_files   *)
(* is iterated), bad (those whose content cannot                           *)
(* be read), root_ok (the root exists and is a directory), recursive, flt   *)
(* (which filter argument is given), has_limit / limit, specific            *)
(* (specific_files; {} when None), alg_ok (hashlib knows the algorithm),    *)
(* outputs (the number of output files), wfail (the handler whose write    *)
(* fails, 0 for none) and wexc (the class of the exception it raises).  Locals: pc, total (total_files), todo                *)
(* (files_to_process), final (final_results, as paths), written (handlers   *)
(* whose write returned), exc (an exception under way), err (the error      *)
(* echoed), success, saved (the "Report saved" message was echoed) and      *)
(* result (how the function ended).                                        *)
(* handlers_ok: get_report_handlers returns (it raises for an output name   *)
(* that is no string); size_str: min_size is given as the CLI passes it, a  *)
(* string such as "1KB"; bar: the local progress_bar (unbound, open,        *)
(* closed).                                                                *)
ScanFrame(wk, b, r, rec, f, hl, l, si, a, o, w, wx, h, ss) ==
  [pc |-> "start", tree |-> {wk[k] : k \in DOMAIN wk}, walk |-> wk, bad |-> b,
   root_ok |-> r, recursive |-> rec, flt |-> f, has_limit |-> hl, limit |-> l,
   specific |-> {si[k] : k \in DOMAIN si}, specific_iter |-> si, alg_ok |-> a,
   outputs |-> o, wfail |-> w, wexc |-> wx, handlers_ok |-> h,
   size_str |-> ss,
   total |-> 0, bar |-> "unbound", todo |-> <<>>, final |-> <<>>,
   written |-> 0, exc |-> "", err |-> "", success |-> FALSE, saved |-> FALSE,
   result |-> ""]

(* No scan is under way: the pool is used on its own. *)
NoScan ==
  [ScanFrame(<<>>, {}, TRUE, TRUE, "none", FALSE, 0, <<>>, TRUE, 1, 0, "", TRUE,
             FALSE)
     EXCEPT !.pc = "off"]

(* No library call is under way. *)
NoLib == [fn |-> "off"]

Init ==
  /\ impl \in Impls
  /\ initial_workers \in 1..MaxWorkers
  /\ progress_bar \in BOOLEAN
  /\ (impl = "threading" => progress_bar = FALSE)
  /\ executor = NoExec
  /\ event = FALSE
  /\ lock = "free"
  /\ units = <<>>
  /\ pcA = "idle"
  /\ call = Frame(0, FALSE, TRUE)
  /\ ret = NoRet
  /\ pcB = "idle"
  /\ last = Op("", "", FALSE)
  /\ scan = NoScan
  /\ lib = NoLib

(* --------------------- concurrent.futures executor --------------------- *)
Running == {u \in DOMAIN units : units[u].st = "running"}
Queued == {u \in DOMAIN units : units[u].st = "queued"}
AllDone == \A u \in DOMAIN units : units[u].st = "done"

(* ThreadPoolExecutor(max_workers=self.initial_workers) *)
NewExecutor ==
  [max_workers |-> initial_workers, shut |-> FALSE, none |-> FALSE, id |-> 1]

(* The executors that hold a unit that has not run to its end.  An executor *)
(* lives on after the pool has let go of it: its worker threads run the     *)
(* units it was given whether or not self.executor still refers to it.      *)
BusyExecutors == {units[u].ex : u \in {v \in DOMAIN units : units[v].st # "done"}}

(* The identity of an executor that is being made: one that no executor     *)
(* with unfinished units has.                                               *)
FreshId ==
  CHOOSE i \in 1..(Len(units) + 1) :
    /\ i \notin BusyExecutors
    /\ \A j \in 1..(Len(units) + 1) : j \notin BusyExecutors => i <= j

(* The units that run on the worker threads of executor x, and those that   *)
(* wait in its queue.                                                       *)
RunningOn(x) == {u \in Running : units[u].ex = x}
QueuedOn(x) == {u \in Queued : units[u].ex = x}

(* A worker thread of an executor takes the executor's oldest queued work   *)
(* item when one of its max_workers threads is free; process_func is called *)
(* on the item.                                                             *)
UnitStart(u) ==
  /\ u \in DOMAIN units
  /\ units[u].st = "queued"
  /\ \A v \in QueuedOn(units[u].ex) : u <= v
  /\ Cardinality(RunningOn(units[u].ex)) < NewExecutor.max_workers
  /\ units' = [units EXCEPT ![u].st = "running"]
  /\ UNCHANGED <<impl, initial_workers, progress_bar, executor, event, lock,
                 pcA, call, ret, pcB, last>>

(* process_func returns a value, returns None or raises; the future is      *)
(* resolved either way.                                                    *)
UnitFinish(u, o) ==
  /\ u \in DOMAIN units
  /\ units[u].st = "running"
  /\ units' = [units EXCEPT ![u].st = "done", ![u].out = o]
  /\ UNCHANGED <<impl, initial_workers, progress_bar, executor, event, lock,
                 pcA, call, ret, pcB, last>>

(* executor.submit(process_func, item): refused once shutdown() was called. *)
SubmitRaises(e) ==
  IF e.none THEN "AttributeError"
  ELSE IF e.shut THEN "RuntimeError" ELSE ""

(* executor.shutdown(wait=True) returns when the worker threads have exited: *)
(* every unit submitted to this executor has run.                           *)
ShutdownWaits == \A u \in DOMAIN units : units[u].ex = executor.id => units[u].st = "done"

(* ------------------------- process_items (A) --------------------------- *)
(* thread_pool.py line 49, "if self._shutdown_event.is_set() or not         *)
(* self.executor": the left operand, and the right one, which is read only  *)
(* when the left one was false.                                             *)
RefusesForEvent == event
RefusesForExecutor == executor.none

(* Fault: the "if not items" test is missing. *)
SkipsCallNoEmptyTest(n) == event

(* threading.py: "if not items" and "if self.is_shutting_down()" *)
SkipsCall(n) == n = 0 \/ event

Returned(rs) == [kind |-> "returned", results |-> rs, exc |-> ""]

(* Units of earlier calls that are done are forgotten when a call begins. *)
Unfinished == SelectSeq(units, LAMBDA r : r.st # "done")

(* Entry of process_items, up to the first step that can block or race:    *)
(* thread_pool.py reads the event (line 49, left operand), threading.py     *)
(* tests the items and the event.                                           *)
ProcessItems(n) ==
  /\ pcA = "idle"
  /\ call' = Frame(n, event, executor.none)
  /\ units' = Unfinished
  /\ IF impl = "thread_pool"
     THEN IF RefusesForEvent
          THEN pcA' = "idle" /\ ret' = Returned(<<>>)
          ELSE pcA' = "tp_exec" /\ ret' = NoRet
     ELSE IF SkipsCall(n)
          THEN pcA' = "idle" /\ ret' = Returned(<<>>)
          ELSE pcA' = "th_start" /\ ret' = NoRet
  /\ UNCHANGED <<impl, initial_workers, progress_bar, executor, event, lock,
                 pcB, last>>

(* thread_pool.py line 49, right operand: the event was clear when it was  *)
(* read; now self.executor is read, and the call returns [] without one.    *)
ExecutorTest ==
  /\ pcA = "tp_exec"
  /\ call' = [call EXCEPT !.noexec = executor.none]
  /\ IF RefusesForExecutor
     THEN pcA' = "idle" /\ ret' = Returned(<<>>)
     ELSE pcA' = "tp_loop" /\ ret' = NoRet
  /\ UNCHANGED <<impl, initial_workers, progress_bar, executor, event, lock,
                 units, pcB, last>>

(* Fault: the submit loop also stops when every worker is busy. *)
LoopBreaksWhenBusy == event \/ Cardinality(Running) >= executor.max_workers

(* thread_pool.py: the shutdown test at the head of "for item in items_list". *)
LoopBreaks == event

LoopCheck ==
  /\ pcA = "tp_loop"
  /\ pcA' = IF call.idx > call.n \/ LoopBreaks THEN "drain" ELSE "tp_submit"
  /\ UNCHANGED <<impl, initial_workers, progress_bar, executor, event, lock,
                 units, call, ret, pcB, last>>

(* Where process_items goes after a submit. *)
AfterSubmit(failed, final) ==
  IF impl = "thread_pool"
  THEN (IF failed THEN "finally" ELSE "tp_loop")
  ELSE (IF failed THEN "th_exit" ELSE IF final THEN "drain" ELSE "th_submit")

(* self.executor.submit(process_func, item); futures.append(future) *)
Submit ==
  /\ pcA \in {"tp_submit", "th_submit"}
  /\ LET err == SubmitRaises(executor)
         u == Len(units) + 1
     IN IF err # ""
        THEN /\ call' = [call EXCEPT !.exc = err]
             /\ units' = units
             /\ pcA' = AfterSubmit(TRUE, FALSE)
        ELSE /\ units' = Append(units, [item |-> call.idx, st |-> "queued",
                                        out |-> "pending",
                                        ex |-> executor.id])
             /\ call' = [call EXCEPT !.futures = Append(@, u),
                                     !.idx = @ + 1,
                                     !.late = IF event THEN @ + 1 ELSE @]
             /\ pcA' = AfterSubmit(FALSE, call.idx = call.n)
  /\ UNCHANGED <<impl, initial_workers, progress_bar, executor, event, lock,
                 ret, pcB, last>>

(* Fault: update() only after a successful result (moved out of the        *)
(* except / finally branch).                                               *)
ReportsSuccess(o) == (impl = "threading" \/ progress_bar) /\ o # "raise"

(* Is the reporter advanced for a drained future whose unit ended with o?   *)
(* thread_pool.py: "if self.progress_bar", on both paths; threading.py:     *)
(* always, in "finally".                                                   *)
Reports(o) == impl = "threading" \/ progress_bar

(* Fault: the result is appended whatever the unit did (the append moved   *)
(* out of the try block).                                                  *)
CollectedAlways(rs, r) == Append(rs, [item |-> r.item, none |-> r.out = "none"])

(* "results.append(result)" unless future.result() raised. *)
Collected(rs, r) ==
  IF r.out = "raise" THEN rs
  ELSE Append(rs, [item |-> r.item, none |-> r.out = "none"])

(* "if self._shutdown_event.is_set(): break" in the drain loop. *)
DrainBreaks == event

Pending == {call.futures[k] : k \in DOMAIN call.futures} \ call.yielded

AfterDrain == IF impl = "thread_pool" THEN "finally" ELSE "th_close"

(* One turn of "for future in as_completed(futures)": the loop ends when    *)
(* every future was yielded, blocks until one is done, and breaks when the  *)
(* shutdown event is set.                                                  *)
Drain ==
  /\ pcA = "drain"
  /\ IF Pending = {}
     THEN pcA' = AfterDrain /\ UNCHANGED call
     ELSE \E u \in Pending :
            /\ units[u].st = "done"
            /\ IF DrainBreaks
               THEN pcA' = AfterDrain /\ UNCHANGED call
               ELSE /\ pcA' = "drain"
                    /\ call' = [call EXCEPT
                         !.yielded = @ \cup {u},
                         !.updates = IF Reports(units[u].out) THEN @ + 1 ELSE @,
                         !.results = Collected(@, units[u])]
  /\ UNCHANGED <<impl, initial_workers, progress_bar, executor, event, lock,
                 units, ret, pcB, last>>

(* Fault: a call that submitted nothing ends with an exception. *)
OutcomeEmptyRaises(c) ==
  IF c.exc = "" /\ c.futures # <<>>
  THEN [kind |-> "returned", results |-> c.results, exc |-> ""]
  ELSE [kind |-> "raised", results |-> <<>>, exc |-> "ValueError"]

(* How a call ends: "return results", or the pending exception leaves it. *)
Outcome(c) ==
  IF c.exc = "" THEN Returned(c.results)
  ELSE [kind |-> "raised", results |-> <<>>, exc |-> c.exc]

(* Fault: the finally block also sets the shutdown event. *)
FinallySetsEvent ==
  /\ pcA = "finally"
  /\ call' = [call EXCEPT !.closes = IF progress_bar THEN @ + 1 ELSE @]
  /\ ret' = Outcome(call)
  /\ pcA' = "idle"
  /\ event' = TRUE
  /\ UNCHANGED <<impl, initial_workers, progress_bar, executor, lock,
                 units, pcB, last>>

(* thread_pool.py: "finally: if self.progress_bar: self.progress_bar.finish()" *)
Finally ==
  /\ pcA = "finally"
  /\ call' = [call EXCEPT !.closes = IF progress_bar THEN @ + 1 ELSE @]
  /\ ret' = Outcome(call)
  /\ pcA' = "idle"
  /\ UNCHANGED <<impl, initial_workers, progress_bar, executor, event, lock,
                 units, pcB, last>>

(* Fault: start() makes a new executor whether or not there is one. *)
StartCreatesAlways == TRUE

(* threading.py start(): under the lock, create the executor if there is    *)
(* none and clear the shutdown event.                                      *)
StartCreates == executor.none

(* threading.py: "with self:" inside process_items calls start(), which    *)
(* takes the lock and, finding no executor, assigns a new one (lines 54-56); *)
(* the event is cleared by the next statement.  With an executor start()    *)
(* releases the lock at once.                                               *)
WithEnter ==
  /\ pcA = "th_start"
  /\ lock = "free"
  /\ IF StartCreates
     THEN /\ executor' = [NewExecutor EXCEPT !.id = FreshId]
          /\ lock' = "A" /\ pcA' = "th_clear"
     ELSE /\ UNCHANGED <<executor, lock>>
          /\ pcA' = IF call.idx > call.n THEN "drain" ELSE "th_submit"
  /\ UNCHANGED <<impl, initial_workers, progress_bar, event, units, call, ret,
                 pcB, last>>

(* start(), line 57: self._shutdown.clear(); the lock is released. *)
WithEnterClear ==
  /\ pcA = "th_clear"
  /\ event' = FALSE
  /\ lock' = "free"
  /\ pcA' = IF call.idx > call.n THEN "drain" ELSE "th_submit"
  /\ UNCHANGED <<impl, initial_workers, progress_bar, executor, units, call,
                 ret, pcB, last>>

(* threading.py: progress.close() after the drain loop. *)
Close ==
  /\ pcA = "th_close"
  /\ call' = [call EXCEPT !.closes = @ + 1]
  /\ pcA' = "th_exit"
  /\ UNCHANGED <<impl, initial_workers, progress_bar, executor, event, lock,
                 units, ret, pcB, last>>

(* "if self._executor:" in shutdown(), "if self.executor:" in __exit__. *)
ShutdownActs == ~executor.none

(* The end of "with self:": __exit__ calls shutdown(), which takes the lock *)
(* and, with an executor, sets the event (line 63); without one it returns  *)
(* and process_items ends.                                                  *)
WithExit ==
  /\ pcA = "th_exit"
  /\ lock = "free"
  /\ IF ShutdownActs
     THEN /\ event' = TRUE
          /\ lock' = "A"
          /\ pcA' = "th_shut"
          /\ UNCHANGED ret
     ELSE /\ UNCHANGED <<event, lock>>
          /\ pcA' = "idle"
          /\ ret' = Outcome(call)
  /\ UNCHANGED <<impl, initial_workers, progress_bar, executor, units, call,
                 pcB, last>>

(* shutdown(), line 64: self._executor.shutdown(wait=True) is called; the   *)
(* executor refuses new work from here on.                                  *)
WithShut ==
  /\ pcA = "th_shut"
  /\ executor' = [executor EXCEPT !.shut = TRUE]
  /\ pcA' = "th_wait"
  /\ UNCHANGED <<impl, initial_workers, progress_bar, event, lock, units,
                 call, ret, pcB, last>>

(* shutdown(): the wait is over, line 65 releases the executor and the      *)
(* lock; process_items returns.                                             *)
WithExitDone ==
  /\ pcA = "th_wait"
  /\ ShutdownWaits
  /\ executor' = NoExec
  /\ lock' = "free"
  /\ pcA' = "idle"
  /\ ret' = Outcome(call)
  /\ UNCHANGED <<impl, initial_workers, progress_bar, event, units, call, pcB,
                 last>>

(* --------------------------- life cycle (B) ---------------------------- *)
(* A shutdown signal that reaches a running call is noted in its frame. *)
Noted(c) == IF pcA # "idle" THEN [c EXCEPT !.sig = TRUE] ELSE c

(* thread_pool.py __enter__, line 31: a new executor is assigned, whether   *)
(* or not the pool has one; an executor it had is let go of without         *)
(* shutdown() and goes on running its units.  The event is cleared by the   *)
(* next statement.  threading.py __enter__ calls start(): under the lock, a *)
(* new executor is assigned when there is none (lines 54-56); with an       *)
(* executor start() returns at once.                                        *)
Enter ==
  /\ pcB = "idle"
  /\ impl = "threading" => lock = "free"
  /\ Cardinality(BusyExecutors) <= MaxDropped
  /\ IF impl = "thread_pool" \/ StartCreates
     THEN /\ executor' = [NewExecutor EXCEPT !.id = FreshId]
          /\ pcB' = "e_clear"
          /\ lock' = IF impl = "threading" THEN "B" ELSE lock
     ELSE UNCHANGED <<executor, pcB, lock>>
  /\ last' = Op("__enter__", "", FALSE)
  /\ UNCHANGED <<impl, initial_workers, progress_bar, event, units, pcA, call,
                 ret>>

(* thread_pool.py line 32 / threading.py line 57: the event is cleared     *)
(* (and start() releases the lock).                                         *)
EnterClear ==
  /\ pcB = "e_clear"
  /\ event' = FALSE
  /\ pcB' = "idle"
  /\ lock' = IF impl = "threading" THEN "free" ELSE lock
  /\ UNCHANGED <<impl, initial_workers, progress_bar, executor, units, pcA,
                 call, ret, last>>

(* Fault: the event is set before the executor is tested, in both classes. *)
ExitAlwaysSetsEvent == TRUE

(* thread_pool.py __exit__ sets the event before it looks at the executor;  *)
(* threading.py shutdown() sets it only when there is an executor.          *)
ExitSetsEvent == impl = "thread_pool" \/ ShutdownActs

(* __exit__ / shutdown(), the first statement: the event is set           *)
(* (thread_pool.py line 37; threading.py line 63, under the lock and only   *)
(* with an executor).  Without an executor the method returns: the test of  *)
(* line 38 reads an attribute that only this thread assigns.                *)
Exit ==
  /\ pcB = "idle"
  /\ impl = "threading" => lock = "free"
  /\ event' = IF ExitSetsEvent THEN TRUE ELSE event
  /\ call' = IF ExitSetsEvent THEN Noted(call) ELSE call
  /\ IF ShutdownActs
     THEN /\ pcB' = "x_shut"
          /\ lock' = IF impl = "threading" THEN "B" ELSE lock
     ELSE UNCHANGED <<pcB, lock>>
  /\ last' = Op("__exit__", "", FALSE)
  /\ UNCHANGED <<impl, initial_workers, progress_bar, executor, units, pcA,
                 ret>>

(* thread_pool.py line 39 / threading.py line 64: executor.shutdown(wait=  *)
(* True) is called; the executor refuses new work from here on.             *)
ExitShut ==
  /\ pcB = "x_shut"
  /\ executor' = [executor EXCEPT !.shut = TRUE]
  /\ pcB' = "x_wait"
  /\ UNCHANGED <<impl, initial_workers, progress_bar, event, lock, units,
                 pcA, call, ret, last>>

(* executor.shutdown(wait=True) has returned: self.executor = None. *)
ExitDone ==
  /\ pcB = "x_wait"
  /\ ShutdownWaits
  /\ executor' = NoExec
  /\ pcB' = "idle"
  /\ lock' = IF impl = "threading" THEN "free" ELSE lock
  /\ UNCHANGED <<impl, initial_workers, progress_bar, event, units, pcA, call,
                 ret, last>>

(* Another thread sets the shutdown event: pool._shutdown_event.set(). *)
Signal ==
  /\ pcB = "idle"
  /\ ~event
  /\ event' = TRUE
  /\ call' = Noted(call)
  /\ last' = Op("set", "", FALSE)
  /\ UNCHANGED <<impl, initial_workers, progress_bar, executor, lock, units,
                 pcA, ret, pcB>>

(* A client reads an attribute of the pool or calls a method by name; a     *)
(* name the instance does not have raises AttributeError.                  *)
HasAttr(name) == name \in PoolAttrs(impl)

Asked == {"initial_workers", "current_workers", "resource_monitor",
          "reduce_workers", "increase_workers"}

GetAttr(name) ==
  /\ pcB = "idle"
  /\ last' = Op("getattr", name, ~HasAttr(name))
  /\ UNCHANGED <<impl, initial_workers, progress_bar, executor, event, lock,
                 units, pcA, call, ret, pcB>>

(* __enter__ is called on a thread_pool pool that is entered. *)
Reenters == impl = "thread_pool" /\ ~executor.none

(* Thread A calls process_items again and again; thread B uses the pool as  *)
(* a with statement does (__enter__ on a thread_pool pool that is not       *)
(* entered, __exit__ at any time) and signals shutdown.  __enter__ on an    *)
(* entered thread_pool pool is the subject of ReenterSpec.                  *)
Next ==
  \/ \E n \in 0..MaxItems : ProcessItems(n) /\ UNCHANGED <<scan, lib>>
  \/ ExecutorTest /\ UNCHANGED <<scan, lib>>
  \/ LoopCheck /\ UNCHANGED <<scan, lib>>
  \/ Submit /\ UNCHANGED <<scan, lib>>
  \/ Drain /\ UNCHANGED <<scan, lib>>
  \/ Finally /\ UNCHANGED <<scan, lib>>
  \/ WithEnter /\ UNCHANGED <<scan, lib>>
  \/ WithEnterClear /\ UNCHANGED <<scan, lib>>
  \/ Close /\ UNCHANGED <<scan, lib>>
  \/ WithExit /\ UNCHANGED <<scan, lib>>
  \/ WithShut /\ UNCHANGED <<scan, lib>>
  \/ WithExitDone /\ UNCHANGED <<scan, lib>>
  \/ Enter /\ ~Reenters /\ UNCHANGED <<scan, lib>>
  \/ EnterClear /\ UNCHANGED <<scan, lib>>
  \/ Exit /\ UNCHANGED <<scan, lib>>
  \/ ExitShut /\ UNCHANGED <<scan, lib>>
  \/ ExitDone /\ UNCHANGED <<scan, lib>>
  \/ Signal /\ UNCHANGED <<scan, lib>>
  \/ \E u \in DOMAIN units : UnitStart(u) /\ UNCHANGED <<scan, lib>>
  \/ \E u \in DOMAIN units, o \in Outcomes : UnitFinish(u, o) /\ UNCHANGED <<scan, lib>>

Spec == Init /\ [][Next]_vars

(* A thread_pool pool whose __enter__ and __exit__ thread B calls in any    *)
(* order, __enter__ on an entered pool included, while thread A calls       *)
(* process_items and the units return values.                               *)
ReenterInit == Init /\ impl = "thread_pool" /\ progress_bar = FALSE

ReenterNext ==
  \/ \E n \in 0..MaxItems : ProcessItems(n) /\ UNCHANGED <<scan, lib>>
  \/ ExecutorTest /\ UNCHANGED <<scan, lib>>
  \/ LoopCheck /\ UNCHANGED <<scan, lib>>
  \/ Submit /\ UNCHANGED <<scan, lib>>
  \/ Drain /\ UNCHANGED <<scan, lib>>
  \/ Finally /\ UNCHANGED <<scan, lib>>
  \/ Enter /\ UNCHANGED <<scan, lib>>
  \/ EnterClear /\ UNCHANGED <<scan, lib>>
  \/ Exit /\ UNCHANGED <<scan, lib>>
  \/ ExitShut /\ UNCHANGED <<scan, lib>>
  \/ ExitDone /\ UNCHANGED <<scan, lib>>
  \/ \E u \in DOMAIN units : UnitStart(u) /\ UNCHANGED <<scan, lib>>
  \/ \E u \in DOMAIN units : UnitFinish(u, "value") /\ UNCHANGED <<scan, lib>>

ReenterSpec == ReenterInit /\ [][ReenterNext]_vars

(* A client that enters and leaves the pool's context and, in between and   *)
(* around, reads attributes of the pool and calls its methods by name.      *)
AttrNext ==
  \/ Enter /\ UNCHANGED <<scan, lib>>
  \/ EnterClear /\ UNCHANGED <<scan, lib>>
  \/ Exit /\ UNCHANGED <<scan, lib>>
  \/ ExitShut /\ UNCHANGED <<scan, lib>>
  \/ ExitDone /\ UNCHANGED <<scan, lib>>
  \/ Signal /\ UNCHANGED <<scan, lib>>
  \/ \E name \in Asked : GetAttr(name) /\ UNCHANGED <<scan, lib>>

AttrSpec == Init /\ [][AttrNext]_vars

(* ----------------- scanner.py: walk_directory_and_log ------------------ *)
(* The files that may exist under the root. *)
PathSet == {"a.txt", "b.log", "sub/c.txt"}

(* os.path.basename(file_path) ends with ".txt" *)
EndsWithTxt(p) == p \in {"a.txt", "sub/c.txt"}
(* the file lies in a subdirectory of the root *)
InSubdir(p) == p = "sub/c.txt"

(* The sequences that list the members of S once each. *)
Orderings(S) ==
  {q \in [1..Cardinality(S) -> S] : \A i, j \in 1..Cardinality(S) :
                                      i # j => q[i] # q[j]}

(* The orders in which os.walk(directory) can yield the files of a tree:    *)
(* top-down, the files of the root before those of its subdirectory; the    *)
(* order of the files of one directory is the file system's (os.scandir),   *)
(* not alphabetical.                                                        *)
WalkOrders(t) ==
  {q \in Orderings(t) : \A i, j \in DOMAIN q :
                          (InSubdir(q[i]) /\ ~InSubdir(q[j])) => j < i}

(* The filter argument a scan is given: none, file_extension=".txt",        *)
(* include=("*.txt",) or exclude=("*.log",).                                *)
Filters == {"none", "file_extension", "include", "exclude"}
(* The limit argument: None, or an int as click's type=int accepts it. *)
Limits == {[has |-> FALSE, n |-> 0]} \cup {[has |-> TRUE, n |-> k] : k \in -1..2}
(* The specific_files argument: None, or a set of paths. *)
SpecificSets == {{}, {"a.txt"}, {"b.log", "sub/c.txt"}}
(* config.max_workers: os.cpu_count() or 4 *)
ScanWorkers == {1, 4}
(* The output files, which handler's write fails (0: none), and with what:  *)
(* an OSError (the file cannot be written) or an AttributeError (the        *)
(* handler's writer is None).                                               *)
Outputs ==
  {<<1, 0, "">>, <<1, 1, "OSError">>, <<1, 1, "AttributeError">>,
   <<2, 0, "">>, <<2, 2, "OSError">>, <<2, 2, "AttributeError">>}

(* should_process_file as walk_directory_and_log calls it: exclude_paths,   *)
(* file_names, min_size and max_size are None; os.path.getsize raises       *)
(* OSError for a path that does not exist.  include, exclude and regex are  *)
(* not among its parameters.                                               *)
should_process_file(p, sc) ==
  /\ ~(sc.flt = "file_extension" /\ ~EndsWithTxt(p))
  /\ p \in sc.tree

(* With min_size a string, a file that comes as far as line 89 makes        *)
(* "size < min_size" raise TypeError, which "except OSError" lets through.  *)
SizeTestRaises(p, sc) == sc.size_str /\ should_process_file(p, sc)

(* Fault: the walk descends although the scan is not recursive. *)
WalkAll(sc) == SelectSeq(sc.walk, LAMBDA p : sc.root_ok)

(* os.walk(directory), with "dirs[:] = []" / "not dirs.clear()" when the    *)
(* scan is not recursive; it yields nothing for a root that is missing or   *)
(* not a directory.                                                        *)
Walk(sc) ==
  SelectSeq(sc.walk, LAMBDA p : sc.root_ok /\ (sc.recursive \/ ~InSubdir(p)))

Qualifying(sc) == SelectSeq(Walk(sc), LAMBDA p : should_process_file(p, sc))

count_files(sc) == Len(Qualifying(sc))

(* count_files raises what should_process_file raises *)
CountRaises(sc) == \E k \in DOMAIN Walk(sc) : SizeTestRaises(Walk(sc)[k], sc)

(* Fault: the slice keeps one element more, s[:n + 1]. *)
SliceOneMore(s, has, n) ==
  IF ~has THEN s
  ELSE SubSeq(s, 1, IF n + 1 < Len(s) THEN (IF n + 1 > 0 THEN n + 1 ELSE 0)
                    ELSE Len(s))

(* Python's s[:n] *)
Slice(s, has, n) ==
  IF ~has THEN s
  ELSE IF n >= 0 THEN SubSeq(s, 1, IF n < Len(s) THEN n ELSE Len(s))
  ELSE SubSeq(s, 1, IF Len(s) + n > 0 THEN Len(s) + n ELSE 0)

(* files_to_process, lines 162-189 *)
FilesToProcess(sc) ==
  IF sc.specific # {}
  THEN SelectSeq(sc.specific_iter, LAMBDA p : should_process_file(p, sc))
  ELSE Slice(Qualifying(sc), sc.has_limit, sc.limit)

(* calculate_hash(path, algorithm) returns (path, digest, mtime), with      *)
(* digest None when hashlib.new or reading the file raised.                 *)
HasDigest(p, sc) == sc.alg_ok /\ p \notin sc.bad
(* what the pool sees of calculate_hash: it always returns a tuple *)
HashOutcome == "value"

ScanInit ==
  /\ impl = "thread_pool"
  /\ initial_workers \in ScanWorkers
  /\ progress_bar = TRUE
  /\ executor = NoExec
  /\ event = FALSE
  /\ lock = "free"
  /\ units = <<>>
  /\ pcA = "idle"
  /\ call = Frame(0, FALSE, TRUE)
  /\ ret = NoRet
  /\ pcB = "idle"
  /\ last = Op("", "", FALSE)
  /\ \E t \in SUBSET PathSet, r \in BOOLEAN, rec \in BOOLEAN, f \in Filters,
        l \in Limits, sp \in SpecificSets, a \in BOOLEAN, o \in Outputs :
       \E b \in SUBSET t, wk \in WalkOrders(t), si \in Orderings(sp) :
         /\ r \/ t = {}
         /\ sp = {} \/ ~l.has
         /\ scan = ScanFrame(wk, b, r, rec, f, l.has, l.n, si, a, o[1], o[2],
                             o[3], TRUE, FALSE)
  /\ lib = NoLib

PoolVars == <<impl, initial_workers, progress_bar, executor, event, lock,
              units, pcA, call, ret, pcB, last>>

(* lines 129-156: the handlers, count_files, the ProgressBar *)
ScanBegin ==
  /\ scan.pc = "start"
  /\ scan' = IF ~scan.handlers_ok
             THEN [scan EXCEPT !.pc = "except", !.exc = "AttributeError"]
             ELSE IF CountRaises(scan)
             THEN [scan EXCEPT !.pc = "except", !.exc = "TypeError"]
             ELSE [scan EXCEPT !.pc = "with", !.total = count_files(scan),
                               !.bar = "open"]
  /\ UNCHANGED PoolVars

(* lines 159-161: with ThreadPoolManager(...) as pool *)
ScanWith ==
  /\ scan.pc = "with"
  /\ Enter
  /\ scan' = [scan EXCEPT !.pc = "entering"]

(* __enter__, second statement *)
ScanEntered ==
  /\ scan.pc = "entering"
  /\ EnterClear
  /\ scan' = [scan EXCEPT !.pc = "select"]

(* lines 162-189: files_to_process.  With specific_files the call of        *)
(* process_items (in the else branch) is skipped and line 195 reads the     *)
(* local "results" that was never assigned.                                *)
ScanSelect ==
  /\ scan.pc = "select"
  /\ scan' = [scan EXCEPT !.todo = FilesToProcess(scan),
                          !.pc = IF scan.specific # {} THEN "exit" ELSE "call",
                          !.exc = IF scan.specific # {}
                                  THEN "UnboundLocalError" ELSE ""]
  /\ UNCHANGED PoolVars

(* lines 191-193: results = pool.process_items(files_to_process, ...) *)
ScanCall ==
  /\ scan.pc = "call"
  /\ ProcessItems(Len(scan.todo))
  /\ scan' = [scan EXCEPT !.pc = "pool"]

(* Fault: the "if hash_val" test is missing. *)
AggregateAll(rs, sc) == [k \in DOMAIN rs |-> sc.todo[rs[k].item]]

(* lines 195-212: the results with a digest go to final_results *)
Aggregate(rs, sc) ==
  LET hit == SelectSeq(rs, LAMBDA r : HasDigest(sc.todo[r.item], sc))
  IN [k \in DOMAIN hit |-> sc.todo[hit[k].item]]

ScanAggregate ==
  /\ scan.pc = "pool"
  /\ pcA = "idle" /\ ret.kind = "returned"
  /\ scan' = [scan EXCEPT !.final = Aggregate(ret.results, scan), !.pc = "exit"]
  /\ UNCHANGED PoolVars

(* leaving the with block: pool.__exit__ *)
ScanExit ==
  /\ scan.pc = "exit"
  /\ Exit
  /\ scan' = [scan EXCEPT !.pc = "shutting"]

(* __exit__: executor.shutdown(wait=True) is called *)
ScanShut ==
  /\ scan.pc = "shutting"
  /\ ExitShut
  /\ scan' = [scan EXCEPT !.pc = "exiting"]

ScanExited ==
  /\ scan.pc = "exiting"
  /\ ExitDone
  /\ scan' = [scan EXCEPT !.pc = IF scan.exc = "" THEN "write" ELSE "except"]

(* lines 228-234: what the handlers of the inner try echo: "except          *)
(* AttributeError" comes first, "except Exception" takes the rest.          *)
InnerMessage(e) ==
  IF e = "AttributeError" THEN "Error: Invalid handler interface"
  ELSE "Error writing report"

(* lines 214-225: handler.write(final_results) for the next handler; a      *)
(* write that raises is caught at line 228 or 231.                          *)
WriteFails(k, sc) == sc.wfail = k
ScanWrite ==
  /\ scan.pc = "write"
  /\ LET k == scan.written + 1 IN
       scan' = IF WriteFails(k, scan)
               THEN [scan EXCEPT !.err = InnerMessage(scan.wexc), !.pc = "finally"]
               ELSE IF k = scan.outputs
               THEN [scan EXCEPT !.written = k, !.success = TRUE, !.pc = "finally"]
               ELSE [scan EXCEPT !.written = k]
  /\ UNCHANGED PoolVars

(* An exception raised inside the with block is caught by one of the two   *)
(* handlers of the inner try (line 228 for an AttributeError, line 231 for  *)
(* the rest), which echoes and returns; one raised before the inner try is  *)
(* caught at line 236.                                                      *)
ScanExcept ==
  /\ scan.pc = "except"
  /\ scan' = [scan EXCEPT !.err = IF scan.bar = "unbound"
                                  THEN "Error during scanning"
                                  ELSE InnerMessage(scan.exc),
                          !.exc = "", !.pc = "finally"]
  /\ UNCHANGED PoolVars

(* lines 239-247: finally; progress_bar.finish() closes the bar and the     *)
(* function returns None; when the exception came before line 156 the      *)
(* local is unbound and UnboundLocalError leaves the function.              *)
ScanFinally ==
  /\ scan.pc = "finally"
  /\ scan' = IF scan.bar = "unbound"
             THEN [scan EXCEPT !.result = "raised UnboundLocalError",
                               !.pc = "done"]
             ELSE [scan EXCEPT !.saved = scan.success, !.bar = "closed",
                               !.result = "returned None", !.pc = "done"]
  /\ UNCHANGED PoolVars

ScanNext ==
  \/ ScanBegin /\ UNCHANGED lib
  \/ ScanWith /\ UNCHANGED lib
  \/ ScanEntered /\ UNCHANGED lib
  \/ ScanSelect /\ UNCHANGED lib
  \/ ScanCall /\ UNCHANGED lib
  \/ ScanAggregate /\ UNCHANGED lib
  \/ ScanExit /\ UNCHANGED lib
  \/ ScanShut /\ UNCHANGED lib
  \/ ScanExited /\ UNCHANGED lib
  \/ ScanWrite /\ UNCHANGED lib
  \/ ScanExcept /\ UNCHANGED lib
  \/ ScanFinally /\ UNCHANGED lib
  \/ ExecutorTest /\ UNCHANGED <<scan, lib>>
  \/ LoopCheck /\ UNCHANGED <<scan, lib>>
  \/ Submit /\ UNCHANGED <<scan, lib>>
  \/ Drain /\ UNCHANGED <<scan, lib>>
  \/ Finally /\ UNCHANGED <<scan, lib>>
  \/ \E u \in DOMAIN units : UnitStart(u) /\ UNCHANGED <<scan, lib>>
  \/ \E u \in DOMAIN units : UnitFinish(u, HashOutcome) /\ UNCHANGED <<scan, lib>>

ScanSpec == ScanInit /\ [][ScanNext]_vars

(* The scans in which something may fail before the progress bar exists:    *)
(* the handlers cannot be made, or a size bound is given as a string.       *)
EarlyInit ==
  /\ impl = "thread_pool"
  /\ initial_workers \in ScanWorkers
  /\ progress_bar = TRUE
  /\ executor = NoExec
  /\ event = FALSE
  /\ lock = "free"
  /\ units = <<>>
  /\ pcA = "idle"
  /\ call = Frame(0, FALSE, TRUE)
  /\ ret = NoRet
  /\ pcB = "idle"
  /\ last = Op("", "", FALSE)
  /\ \E t \in SUBSET PathSet, f \in {"none", "file_extension"},
        sp \in SpecificSets, a \in BOOLEAN, o \in Outputs, h \in BOOLEAN,
        ss \in BOOLEAN :
       \E b \in SUBSET t, wk \in WalkOrders(t), si \in Orderings(sp) :
         scan = ScanFrame(wk, b, TRUE, TRUE, f, FALSE, 0, si, a, o[1], o[2],
                          o[3], h, ss)
  /\ lib = NoLib

EarlySpec == EarlyInit /\ [][ScanNext]_vars

(* ------------------------------ claims -------------------------------- *)
(* process_items has returned or raised, and no new call has begun. *)
CallEnded == pcA = "idle" /\ ret.kind # "none"

Futures == {call.futures[k] : k \in DOMAIN call.futures}

(* The units of the call on which process_func returned normally / raised. *)
Normal == {u \in Futures : units[u].st = "done" /\ units[u].out # "raise"}
Failed == {u \in Futures : units[u].st = "done" /\ units[u].out = "raise"}

(* rs holds one result for each unit of us, and nothing else. *)
OneResultEach(rs, us) ==
  /\ Len(rs) = Cardinality(us)
  /\ \A u \in us : \E k \in DOMAIN rs :
       rs[k] = [item |-> units[u].item, none |-> units[u].out = "none"]

(* Every item of the batch was submitted and its unit has run. *)
AllProcessed ==
  /\ Len(call.futures) = call.n
  /\ \A u \in Futures : units[u].st = "done"

(* C1 as stated: for every batch, process_items does not raise and returns *)
(* exactly one result for each item on which process_func returned normally *)
(* (None included), none for an item on which it raised; a failing item     *)
(* never keeps a sibling from being processed.                             *)
C1_EveryBatch ==
  CallEnded =>
    /\ ret.kind = "returned"
    /\ OneResultEach(ret.results, Normal)
    /\ (Failed # {} => AllProcessed)

(* C1, amended: the same for every batch during which no shutdown is        *)
(* signalled (the shutdown event is neither set when process_items is       *)
(* called nor set while it runs).                                           *)
C1_FailuresExcluded ==
  (CallEnded /\ ~call.sig) =>
    /\ ret.kind = "returned"
    /\ OneResultEach(ret.results, Normal)
    /\ (Failed # {} => AllProcessed)

(* A batch of two ended without shutdown: one unit raised, one returned,    *)
(* and the one result is the sibling's.                                    *)
C1_Witness ==
  /\ CallEnded /\ ~call.sig /\ call.n = 2
  /\ Failed # {} /\ Normal # {}
  /\ Len(ret.results) = 1

(* A reporter is advanced by the call: the one attached to the pool          *)
(* (thread_pool.py) or the one process_items creates (threading.py).        *)
ReporterPresent == impl = "threading" \/ progress_bar

(* The pool has an executor when process_items takes the batch: the       *)
(* context of a thread_pool.py pool was entered; a threading.py pool makes  *)
(* its own on the way.                                                     *)
Started == impl = "threading" \/ ~call.noexec

(* C2 as stated: for a batch of N items with a reporter attached and no     *)
(* shutdown signalled, update() has been called exactly N times when        *)
(* process_items returns.                                                  *)
C2_ProgressCountsBatch ==
  (CallEnded /\ ~call.sig /\ ReporterPresent) => call.updates = call.n

(* C2, amended: the same for a pool that has been started (thread_pool.py:  *)
(* process_items is called inside the pool's context): N updates at the     *)
(* return, one per item, failed or not, and at no moment two for one item.  *)
C2_ProgressExact ==
  /\ (CallEnded /\ ~call.sig /\ ReporterPresent /\ Started) =>
       call.updates = call.n
  /\ ReporterPresent => call.updates = Cardinality(call.yielded)

C2_Witness ==
  /\ CallEnded /\ ~call.sig /\ impl = "thread_pool" /\ progress_bar
  /\ ~call.noexec /\ call.n = 2 /\ call.updates = 2
  /\ Failed # {} /\ Normal # {}

Adjusts == {"increase_workers", "reduce_workers"}

(* C3 as stated: after any sequence of increase_workers / reduce_workers    *)
(* calls the pool has a current_workers, within [min_workers, max_workers]: *)
(* reading it does not raise.                                              *)
C3_WorkersWithinBounds ==
  (last.op = "getattr" /\ last.attr = "current_workers") =>
    (last.raised = "" /\ HasAttr("current_workers"))

(* C4 as stated: increase_workers and reduce_workers are operations of the  *)
(* pool that change current_workers by one: calling them does not raise.    *)
C4_AdjustByOne ==
  (last.op = "getattr" /\ last.attr \in Adjusts) =>
    (last.raised = "" /\ HasAttr(last.attr) /\ HasAttr("current_workers"))

(* C5 as stated: once the shutdown signal is set, process_items submits no  *)
(* further item, and it returns normally, with the results drained so far   *)
(* ([] when the signal was set before the call).                            *)
C5_NoDispatchAfterSignal ==
  /\ call.late = 0
  /\ (CallEnded /\ call.sig) =>
       (ret.kind = "returned" /\ ret.results = call.results)

(* C6 as stated: when __exit__ / shutdown() has returned (the executor is   *)
(* released), every unit that was dispatched has run to completion and none *)
(* is executing or waiting.  A thread_pool pool entered twice lets go of    *)
(* its first executor, whose units __exit__ does not wait for.              *)
C6_ShutdownWaitsForUnits == executor.none => AllDone

(* C7 as stated: __exit__ / shutdown() on a pool without an executor        *)
(* (already shut down, or never started) changes no state: the executor     *)
(* stays None and the shutdown flag keeps its value.                        *)
C7_ShutdownChangesNothing ==
  [][(Exit /\ executor.none) =>
       (executor' = executor /\ event' = event /\ lock' = lock /\ pcB' = pcB)]_vars

(* C7, amended: on a pool without an executor, __exit__ / shutdown() does   *)
(* not raise and leaves the executor None; the shutdown flag keeps its      *)
(* value, except that thread_pool's __exit__ on a pool that was never       *)
(* started sets it.                                                        *)
C7_ShutdownIdempotent ==
  [][(Exit /\ executor.none) =>
       /\ executor' = executor /\ lock' = lock /\ pcB' = pcB
       /\ \/ event' = event
          \/ impl = "thread_pool" /\ ~event /\ event']_vars

(* __exit__ / shutdown() was just called on a pool without an executor. *)
C7_Witness ==
  /\ last.op = "__exit__" /\ last.noexec
  /\ executor.none /\ pcB = "idle" /\ event

(* C8 as stated: the pool has a resource monitor whose start() launches a   *)
(* sampling thread and whose stop() joins it: reaching it does not raise.   *)
C8_MonitorLifecycle ==
  (last.op = "getattr" /\ last.attr = "resource_monitor") =>
    (last.raised = "" /\ HasAttr("resource_monitor"))

(* C9: process_items on an empty sequence returns [] without submitting a   *)
(* unit (process_func is never called) and without raising.                 *)
C9_EmptyBatch ==
  call.n = 0 =>
    /\ call.futures = <<>>
    /\ call.exc = ""
    /\ pcA \in {"idle", "tp_exec", "tp_loop", "drain", "finally"}
    /\ CallEnded => ret = Returned(<<>>)

(* An empty batch was given to a started thread_pool pool and has returned. *)
C9_Witness ==
  /\ CallEnded /\ call.n = 0 /\ ~call.sig /\ impl = "thread_pool"
  /\ ~executor.none

(* C10 as stated: the units executing process_func at one moment are never  *)
(* more than the pool's worker count; with a count of 1 they run one after  *)
(* another.  The executor a thread_pool pool let go of runs its units next  *)
(* to those of the new one.                                                 *)
C10_AtMostWorkersRun == Cardinality(Running) <= initial_workers


(* ------------------------- claims on the scan -------------------------- *)
(* The paths handed to the pool, and those in the report. *)
DispatchedPaths == {scan.todo[units[u].item] : u \in DOMAIN units}
Reported == {scan.final[k] : k \in DOMAIN scan.final}
(* process_items has returned to the scan / the with block is behind. *)
PoolReturned == scan.pc = "pool" /\ CallEnded
AfterPool ==
  scan.pc \in {"exit", "shutting", "exiting", "write", "except", "finally", "done"}
ScanDone == scan.pc = "done"

(* What calculate_hash yields for the items of a batch, as the results. *)
Triple(p, sc) == [path |-> p, digest |-> HasDigest(p, sc)]
Count(sq, x) == Cardinality({k \in DOMAIN sq : sq[k] = x})
SameMultiset(a, b) ==
  /\ Len(a) = Len(b)
  /\ \A k \in DOMAIN a : Count(a, a[k]) = Count(b, a[k])

(* C11: the results process_items returns for a batch are, as a multiset,   *)
(* the values of fn on the items, whatever the worker count (1 or 4) and    *)
(* the interleaving of the units; only their order varies.                  *)
C11_SameResultsAnyWorkers ==
  PoolReturned =>
    /\ ret.kind = "returned"
    /\ SameMultiset(
         [k \in DOMAIN ret.results |->
            IF ret.results[k].none THEN [path |-> "", digest |-> FALSE]
            ELSE Triple(scan.todo[ret.results[k].item], scan)],
         [k \in DOMAIN scan.todo |-> Triple(scan.todo[k], scan)])

(* Four workers returned the three results in an order that is not the      *)
(* order of submission.                                                    *)
C11_Witness ==
  /\ PoolReturned /\ initial_workers = 4
  /\ Len(ret.results) = 3 /\ ret.results[1].item = 3

(* The files under the root that are in reach of the walk and pass the      *)
(* filter.                                                                 *)
Candidates ==
  {p \in PathSet : /\ scan.root_ok /\ p \in scan.tree
                   /\ (scan.recursive \/ ~InSubdir(p))
                   /\ should_process_file(p, scan)}

(* C12: with no limit and no specific_files, the paths dispatched for       *)
(* hashing are the files under the root (directly in it when the scan is    *)
(* not recursive) for which should_process_file holds, and count_files is   *)
(* the size of that set.                                                   *)
C12_DispatchesCandidates ==
  (scan.specific = {} /\ ~scan.has_limit) =>
    /\ DispatchedPaths \subseteq Candidates
    /\ AfterPool => DispatchedPaths = Candidates /\ Len(units) = Cardinality(Candidates)
    /\ scan.pc # "start" => scan.total = Cardinality(Candidates)

C12_Witness ==
  /\ ScanDone /\ scan.specific = {} /\ ~scan.has_limit
  /\ ~scan.recursive /\ "sub/c.txt" \in scan.tree
  /\ scan.flt = "file_extension" /\ "b.log" \in scan.tree
  /\ DispatchedPaths = {"a.txt"} /\ scan.total = 1

(* fnmatch of the include pattern "*.txt" / the exclude pattern "*.log" *)
MatchesInclude(p) == EndsWithTxt(p)
MatchesExclude(p) == ~EndsWithTxt(p)

(* C13 as stated: a file whose name matches no include pattern, or matches  *)
(* an exclude pattern, never appears in the report (include=["*.txt"] over  *)
(* a.txt, b.log, c.txt reports a.txt and c.txt only).                       *)
C13_PatternsFilterReport ==
  /\ scan.flt = "include" => \A p \in Reported : MatchesInclude(p)
  /\ scan.flt = "exclude" => \A p \in Reported : ~MatchesExclude(p)

(* C14 as stated: with specific_files, exactly the members that pass the    *)
(* filter are hashed, and the report is written to every output file.       *)
C14_SpecificFilesHashed ==
  (ScanDone /\ scan.specific # {}) =>
    /\ DispatchedPaths = {p \in scan.specific : should_process_file(p, scan)}
    /\ scan.wfail = 0 => scan.written = scan.outputs

(* The first n of the qualifying files, in walk order. *)
FirstQualifying(n) ==
  {Qualifying(scan)[k] : k \in {j \in DOMAIN Qualifying(scan) : j <= n}}

(* C15 as stated: with a limit N at most N files are dispatched, the first  *)
(* N qualifying files in walk order, and no other is hashed or reported.    *)
C15_AtMostLimit ==
  scan.has_limit =>
    /\ \A u \in DOMAIN units : u <= scan.limit
    /\ DispatchedPaths \subseteq FirstQualifying(scan.limit)
    /\ Reported \subseteq FirstQualifying(scan.limit)

(* C15, amended: the same for a limit N >= 0; the selection is made before  *)
(* anything is hashed, and after the batch exactly the first N qualifying   *)
(* files (all of them when there are fewer) were dispatched.                *)
C15_LimitTruncates ==
  (scan.has_limit /\ scan.limit >= 0) =>
    /\ \A u \in DOMAIN units : u <= scan.limit
    /\ DispatchedPaths \subseteq FirstQualifying(scan.limit)
    /\ Reported \subseteq FirstQualifying(scan.limit)
    /\ scan.pc \in {"start", "with", "entering", "select", "call"} => units = <<>>
    /\ AfterPool => DispatchedPaths = FirstQualifying(scan.limit)

(* Three files qualify, the limit is 2: the first two were hashed. *)
C15_Witness ==
  /\ ScanDone /\ scan.has_limit /\ scan.limit = 2
  /\ Len(Qualifying(scan)) = 3
  /\ DispatchedPaths = {"a.txt", "b.log"} /\ Reported = {"a.txt", "b.log"}

(* C16: a file that cannot be hashed gives a result without digest and no   *)
(* exception; the scan goes on, the report holds every other dispatched     *)
(* file and not the failed one, and progress was advanced once per file.    *)
C16_FailedFileDropped ==
  scan.specific = {} =>
    /\ \A u \in DOMAIN units : units[u].out \in {"pending", "value"}
    /\ PoolReturned => ret.kind = "returned"
    /\ AfterPool =>
         /\ Reported = {p \in DispatchedPaths : HasDigest(p, scan)}
         /\ Len(scan.final) = Cardinality(Reported)
         /\ call.updates = Len(scan.todo)
         /\ call.updates = Cardinality(call.yielded)
    /\ (ScanDone /\ scan.wfail = 0) => (scan.success /\ scan.err = "")

(* One of three files could not be read; the other two are in the report. *)
C16_Witness ==
  /\ ScanDone /\ scan.alg_ok /\ scan.success
  /\ scan.bad = {"b.log"} /\ DispatchedPaths = PathSet
  /\ Reported = {"a.txt", "sub/c.txt"} /\ call.updates = 3

(* C17 as stated: for a root that is missing or not a directory the scan    *)
(* reports a failure before the pool exists; nothing is dispatched and no   *)
(* report is written.                                                      *)
C17_BadRootFailsFast ==
  ~scan.root_ok =>
    /\ executor.none /\ units = <<>>
    /\ scan.written = 0
    /\ ScanDone => scan.err # ""

(* C18 as stated: with an unsupported algorithm the scan fails before any   *)
(* file is dispatched, the failure is reported and no report is written.    *)
C18_BadAlgorithmFailsFast ==
  ~scan.alg_ok =>
    /\ units = <<>>
    /\ scan.written = 0
    /\ ScanDone => (scan.err # "" /\ ~scan.saved)

(* C19 as stated: when a handler's write fails, the scan ends as failed:    *)
(* the caller gets an error outcome, not a normal return, and no "Report    *)
(* saved" message is echoed.                                               *)
C19_WriteFailureSurfaces ==
  (ScanDone /\ scan.specific = {} /\ scan.wfail # 0) =>
    /\ scan.result # "returned None"
    /\ ~scan.saved

(* C20: the scan of an empty directory dispatches nothing, aggregates       *)
(* nothing and, the handlers accepting the write, ends without error after  *)
(* one write of the empty list per handler.                                *)
C20_EmptyDirectory ==
  (scan.root_ok /\ scan.tree = {} /\ scan.specific = {}) =>
    /\ units = <<>> /\ scan.final = <<>>
    /\ PoolReturned => ret = Returned(<<>>)
    /\ scan.written <= scan.outputs
    /\ (ScanDone /\ scan.wfail = 0) =>
         /\ scan.written = scan.outputs
         /\ scan.success /\ scan.saved /\ scan.err = ""

C20_Witness ==
  /\ ScanDone /\ scan.root_ok /\ scan.tree = {} /\ scan.specific = {}
  /\ scan.outputs = 2 /\ scan.written = 2 /\ scan.final = <<>>

(* C21 as stated: when the scan has finished, the reporter's count equals   *)
(* the total it was created with (update() was called once for each file    *)
(* counted by count_files), also with a limit or with specific_files.       *)
C21_ProgressReachesTotal == ScanDone => call.updates = scan.total

(* ------------------- filters.py: should_process_file ------------------- *)
LibOff ==
  /\ impl = "thread_pool"
  /\ initial_workers = 1
  /\ progress_bar = FALSE
  /\ executor = NoExec
  /\ event = FALSE
  /\ lock = "free"
  /\ units = <<>>
  /\ pcA = "idle"
  /\ call = Frame(0, FALSE, TRUE)
  /\ ret = NoRet
  /\ pcB = "idle"
  /\ last = Op("", "", FALSE)
  /\ scan = NoScan

(* A path string and what it names: dir is the directory part of the       *)
(* string ("" for a bare file name), stem and ext the two parts of the     *)
(* name, kind what is there (a regular file, a directory, nothing), size    *)
(* the file's st_size and err the call in which Path.stat raises OSError    *)
(* ("": in none; "is_file": inside path.is_file(), as with a permission     *)
(* error; "stat": in path.stat() of line 58).                               *)
FsPath(d, st, e, k, sz, er) ==
  [dir |-> d, stem |-> st, ext |-> e, kind |-> k, size |-> sz, err |-> er]

FilterPaths ==
  {FsPath("", "test", "txt", "file", 12, ""),
   FsPath("/d", "test", "txt", "file", 12, ""),
   FsPath("/d", "data", "tmp", "file", 0, ""),
   FsPath("/d", "sub", "", "dir", 0, ""),
   FsPath("/d", "gone", "txt", "missing", 0, ""),
   FsPath("/d", "test", "txt", "file", 12, "is_file"),
   FsPath("/d", "test", "txt", "file", 12, "stat")}

(* The patterns, each written in the syntax of the mode in use:            *)
(*   ends e:    the glob "*.e"   / the regex "\.e$"                        *)
(*   starts s:  the glob "s.*"   / the regex "^s\."                        *)
(*   bracket:   the glob "["     / the regex "[invalid"                    *)
(* compiled: the element is a compiled re.Pattern, not a string.            *)
FilterPatterns ==
  {[shape |-> "ends", s |-> "txt", compiled |-> FALSE],
   [shape |-> "ends", s |-> "tmp", compiled |-> FALSE],
   [shape |-> "starts", s |-> "test", compiled |-> FALSE],
   [shape |-> "bracket", s |-> "[", compiled |-> FALSE]}

(* The pattern lists given as arguments: lists of strings. *)
PatternLists ==
  UNION {Orderings(S) : S \in {T \in SUBSET FilterPatterns :
                                 Cardinality(T) <= MaxPatterns}}

(* min_size / max_size: None or an int *)
FilterBounds ==
  {[has |-> FALSE, n |-> 0]} \cup {[has |-> TRUE, n |-> k] : k \in {0, 12, 13}}

(* re.compile(pattern) raises re.error for "[invalid"; a glob is never      *)
(* compiled.                                                               *)
WellFormed(p, use_regex) == ~(use_regex /\ p.shape = "bracket")

(* fnmatch.fnmatch(path, pattern) / pattern.search(path) on the whole path  *)
(* string: "*.e" and "\.e$" look at its end, "s.*" and "^s\." at its        *)
(* beginning; the glob "[" matches the string "[" only.                     *)
PatternMatches(path, p) ==
  CASE p.shape = "ends" -> path.ext = p.s
    [] p.shape = "starts" -> path.dir = "" /\ path.stem = p.s
    [] OTHER -> FALSE

(* re.compile(pattern) *)
Compiled(p) == [p EXCEPT !.compiled = TRUE]

(* compile_patterns(patterns, use_regex): the list it returns, or the      *)
(* re.error that leaves it.                                                *)
compile_patterns(ps, use_regex) ==
  IF ps = <<>> THEN [raised |-> "", out |-> <<>>]
  ELSE IF use_regex /\ \E k \in DOMAIN ps : ~WellFormed(ps[k], use_regex)
  THEN [raised |-> "re.error", out |-> <<>>]
  ELSE IF use_regex
  THEN [raised |-> "", out |-> [k \in DOMAIN ps |-> Compiled(ps[k])]]
  ELSE [raised |-> "", out |-> ps]

(* One turn of matches_pattern's loop.  In regex mode a compiled pattern    *)
(* is searched (line 33) and a string goes through re.search (line 36),     *)
(* which compiles it first and raises re.error for "[invalid"; in glob      *)
(* mode fnmatch is given str(pattern) (line 38), which for a compiled       *)
(* pattern is its repr and matches no path.                                 *)
PatternRaises(p, use_regex) == use_regex /\ ~p.compiled /\ ~WellFormed(p, use_regex)
PatternHits(path, p, use_regex) ==
  /\ use_regex \/ ~p.compiled
  /\ ~PatternRaises(p, use_regex)
  /\ PatternMatches(path, p)

(* matches_pattern(path, patterns, use_regex): "True" for an empty list,    *)
(* else what the first pattern that matches or raises makes of the loop,    *)
(* "False" when there is none.                                              *)
matches_pattern(path, ps, use_regex) ==
  IF ps = <<>> THEN "True"
  ELSE LET stop == {k \in DOMAIN ps : \/ PatternRaises(ps[k], use_regex)
                                      \/ PatternHits(path, ps[k], use_regex)}
       IN IF stop = {} THEN "False"
          ELSE LET k == CHOOSE m \in stop : \A j \in stop : m <= j
               IN IF PatternRaises(ps[k], use_regex) THEN "re.error" ELSE "True"

(* Fault: the "excludes and" guard is missing. *)
ExcludeRejectsAlways(path, excludes, use_regex) ==
  matches_pattern(path, excludes, use_regex)

(* "if excludes and matches_pattern(file_path, excludes, use_regex)" *)
ExcludeRejects(path, excludes, use_regex) ==
  IF excludes = <<>> THEN "False" ELSE matches_pattern(path, excludes, use_regex)

(* "if includes and not matches_pattern(file_path, includes, use_regex)" *)
IncludeRejects(path, includes, use_regex) ==
  IF includes = <<>> THEN "False"
  ELSE LET m == matches_pattern(path, includes, use_regex)
       IN IF m = "True" THEN "False" ELSE IF m = "False" THEN "True" ELSE m

(* The frame of a call: of should_process_file(file_path, include_patterns, *)
(* exclude_patterns, use_regex, min_size, max_size), of                     *)
(* compile_patterns(include_patterns, use_regex) or of                      *)
(* matches_pattern(file_path, include_patterns, use_regex) on its own.      *)
FilterFrame(f, path, inc, exc, re, mn, mx) ==
  [fn |-> f, pc |-> "start", path |-> path, include |-> inc, exclude |-> exc,
   use_regex |-> re, min |-> mn, max |-> mx, includes |-> <<>>,
   excludes |-> <<>>, caught |-> "", raised |-> "", result |-> FALSE]

FilterInit ==
  /\ LibOff
  /\ \E f \in {"should_process_file", "compile_patterns", "matches_pattern"},
        path \in FilterPaths, inc \in PatternLists,
        exc \in PatternLists, re \in BOOLEAN,
        mn \in FilterBounds, mx \in FilterBounds :
       /\ f = "compile_patterns" =>
            (exc = <<>> /\ ~mn.has /\ ~mx.has /\ path.dir = "")
       /\ f = "matches_pattern" =>
            (exc = <<>> /\ ~mn.has /\ ~mx.has /\ path.err = "")
       /\ lib = FilterFrame(f, path, inc, exc, re, mn, mx)

FilterReturn(v) == lib' = [lib EXCEPT !.pc = "done", !.result = v]

(* lines 76-78: "except Exception": the error is logged, False returned *)
FilterCaught(e) == lib' = [lib EXCEPT !.pc = "done", !.result = FALSE, !.caught = e]

(* lines 53-55: path.is_file() *)
FsIsFile ==
  /\ lib.fn = "should_process_file" /\ lib.pc = "start"
  /\ IF lib.path.err = "is_file" THEN FilterCaught("OSError")
     ELSE IF lib.path.kind # "file" THEN FilterReturn(FALSE)
     ELSE lib' = [lib EXCEPT !.pc = "size"]

(* lines 58-62: path.stat().st_size and the size constraints *)
FsSize ==
  /\ lib.fn = "should_process_file" /\ lib.pc = "size"
  /\ IF lib.path.err = "stat" THEN FilterCaught("OSError")
     ELSE IF lib.min.has /\ lib.path.size < lib.min.n THEN FilterReturn(FALSE)
     ELSE IF lib.max.has /\ lib.path.size > lib.max.n THEN FilterReturn(FALSE)
     ELSE lib' = [lib EXCEPT !.pc = "compile"]

(* lines 65-66, and 76-78 when re.compile raises: the exception is caught   *)
(* and the file rejected.                                                  *)
FsCompile ==
  /\ lib.fn = "should_process_file" /\ lib.pc = "compile"
  /\ LET i == compile_patterns(lib.include, lib.use_regex)
         x == compile_patterns(lib.exclude, lib.use_regex)
     IN IF i.raised # "" \/ x.raised # ""
        THEN FilterCaught("re.error")
        ELSE lib' = [lib EXCEPT !.pc = "exclude", !.includes = i.out,
                                !.excludes = x.out]

(* lines 68-69 *)
FsExclude ==
  /\ lib.fn = "should_process_file" /\ lib.pc = "exclude"
  /\ LET r == ExcludeRejects(lib.path, lib.excludes, lib.use_regex)
     IN IF r = "True" THEN FilterReturn(FALSE)
        ELSE IF r = "False" THEN lib' = [lib EXCEPT !.pc = "include"]
        ELSE FilterCaught(r)

(* lines 71-74 *)
FsInclude ==
  /\ lib.fn = "should_process_file" /\ lib.pc = "include"
  /\ LET r == IncludeRejects(lib.path, lib.includes, lib.use_regex)
     IN IF r \in {"True", "False"} THEN FilterReturn(r = "False")
        ELSE FilterCaught(r)

(* compile_patterns called on its own (lines 10-19) *)
FsCompileCall ==
  /\ lib.fn = "compile_patterns" /\ lib.pc = "start"
  /\ LET i == compile_patterns(lib.include, lib.use_regex)
     IN lib' = [lib EXCEPT !.pc = "done", !.includes = i.out,
                            !.raised = i.raised]

(* matches_pattern called on its own, with a list of strings (lines 22-40) *)
FsMatchCall ==
  /\ lib.fn = "matches_pattern" /\ lib.pc = "start"
  /\ LET m == matches_pattern(lib.path, lib.include, lib.use_regex)
     IN lib' = [lib EXCEPT !.pc = "done", !.result = (m = "True"),
                            !.raised = IF m \in {"True", "False"} THEN "" ELSE m]

FilterNext ==
  \/ FsIsFile /\ UNCHANGED <<PoolVars, scan>>
  \/ FsSize /\ UNCHANGED <<PoolVars, scan>>
  \/ FsCompile /\ UNCHANGED <<PoolVars, scan>>
  \/ FsExclude /\ UNCHANGED <<PoolVars, scan>>
  \/ FsInclude /\ UNCHANGED <<PoolVars, scan>>
  \/ FsCompileCall /\ UNCHANGED <<PoolVars, scan>>
  \/ FsMatchCall /\ UNCHANGED <<PoolVars, scan>>

FilterSpec == FilterInit /\ [][FilterNext]_vars

(* ------------------------ claims on the filter ------------------------- *)
FilterDone == lib.fn = "should_process_file" /\ lib.pc = "done"
AllWellFormed ==
  /\ \A k \in DOMAIN lib.include : WellFormed(lib.include[k], lib.use_regex)
  /\ \A k \in DOMAIN lib.exclude : WellFormed(lib.exclude[k], lib.use_regex)
(* a regular file (its stat can be read) within the size bounds *)
RegularWithinBounds ==
  /\ lib.path.kind = "file" /\ lib.path.err = ""
  /\ lib.min.has => lib.path.size >= lib.min.n
  /\ lib.max.has => lib.path.size <= lib.max.n
SomeMatch(ps) ==
  \E k \in DOMAIN ps : /\ WellFormed(ps[k], lib.use_regex)
                       /\ PatternMatches(lib.path, ps[k])

(* C22: with well-formed patterns, a regular file within the size bounds is *)
(* accepted if and only if it matches no exclude pattern and the include    *)
(* list is empty or it matches an include pattern; a file matching an       *)
(* include and an exclude pattern is rejected, an absent include list       *)
(* rejects nothing.                                                        *)
C22_ExcludeThenInclude ==
  (FilterDone /\ AllWellFormed /\ RegularWithinBounds) =>
    /\ lib.result <=>
         (~SomeMatch(lib.exclude) /\ (lib.include = <<>> \/ SomeMatch(lib.include)))
    /\ lib.caught = ""

(* A file that matches an include and an exclude pattern was rejected. *)
C22_Witness ==
  /\ FilterDone /\ AllWellFormed /\ RegularWithinBounds
  /\ SomeMatch(lib.include) /\ SomeMatch(lib.exclude) /\ ~lib.result

(* The well-formed patterns of a list, as compile_patterns is to return     *)
(* them.                                                                    *)
WellFormedOf(ps, use_regex) ==
  LET ok == SelectSeq(ps, LAMBDA q : WellFormed(q, use_regex))
  IN IF use_regex THEN [k \in DOMAIN ok |-> Compiled(ok[k])] ELSE ok

(* C23 as stated: a malformed pattern never raises out of the filter and is *)
(* treated as matching nothing: compile_patterns drops it from its result,  *)
(* matches_pattern does not raise on it, and a file that no well-formed     *)
(* pattern excludes is still accepted when a malformed exclude pattern is   *)
(* present.                                                                 *)
C23_MalformedMatchesNothing ==
  /\ (lib.fn = "compile_patterns" /\ lib.pc = "done") =>
       /\ lib.raised = ""
       /\ lib.includes = WellFormedOf(lib.include, lib.use_regex)
  /\ (lib.fn = "matches_pattern" /\ lib.pc = "done") => lib.raised = ""
  /\ (/\ FilterDone /\ RegularWithinBounds
      /\ \A k \in DOMAIN lib.include : WellFormed(lib.include[k], lib.use_regex)
      /\ ~SomeMatch(lib.exclude)
      /\ (lib.include = <<>> \/ SomeMatch(lib.include))) => lib.result

(* --------------------- hasher.py: get_file_reader ---------------------- *)
(* HashReportConfig.mmap_threshold *)
mmap_threshold == 10485760

(* st_size of the files the reader is asked for *)
ReaderSizes == {0, 12, mmap_threshold - 1, mmap_threshold, mmap_threshold + 1}

(* The frame of "with get_file_reader(file_path, use_mmap) as reader: body". *)
(* exists: the path names a file; map_ok: mmap.mmap succeeds; body: whether  *)
(* the with body ends normally or raises.  yields holds what the generator  *)
(* has yielded, each with the position of f at that moment; raised is the   *)
(* exception that leaves the with statement.                               *)
ReaderFrame(sz, um, ex, ok, b) ==
  [fn |-> "get_file_reader", pc |-> "start", size |-> sz, use_mmap |-> um,
   exists |-> ex, map_ok |-> ok, body |-> b, pos |-> 0, yields |-> <<>>,
   raised |-> ""]

ReaderInit ==
  /\ LibOff
  /\ \E sz \in ReaderSizes, um \in BOOLEAN, ex \in BOOLEAN, ok \in BOOLEAN,
        b \in {"ok", "raises"} :
       lib = ReaderFrame(sz, um, ex, ok, b)

(* line 29: "if use_mmap and file_size > 0" *)
Maps(um, sz) == um /\ sz > 0

(* lines 25-26: path.stat() raises for a path that does not exist *)
RdStat ==
  /\ lib.fn = "get_file_reader" /\ lib.pc = "start"
  /\ lib' = IF lib.exists THEN [lib EXCEPT !.pc = "open"]
            ELSE [lib EXCEPT !.pc = "done", !.raised = "FileNotFoundError"]

(* lines 28-29: the file is opened, positioned at its start *)
RdOpen ==
  /\ lib.fn = "get_file_reader" /\ lib.pc = "open"
  /\ lib' = [lib EXCEPT !.pos = 0,
                        !.pc = IF Maps(lib.use_mmap, lib.size)
                               THEN "map" ELSE "yield_f"]

(* lines 30-36: mmap.mmap(...); "yield mm", or f.seek(0) when it raised.    *)
(* mmap.mmap raises ValueError for an empty file.                           *)
RdMap ==
  /\ lib.fn = "get_file_reader" /\ lib.pc = "map"
  /\ lib' = IF lib.map_ok /\ lib.size > 0
            THEN [lib EXCEPT !.yields = Append(@, [reader |-> "mmap", pos |-> 0]),
                             !.pc = "body"]
            ELSE [lib EXCEPT !.pos = 0, !.pc = "yield_f"]

(* line 37: "yield f".  A generator that yields again after the body's      *)
(* exception was thrown into it makes the context manager raise             *)
(* RuntimeError.                                                            *)
RdYieldF ==
  /\ lib.fn = "get_file_reader" /\ lib.pc = "yield_f"
  /\ lib' = [lib EXCEPT
       !.yields = Append(@, [reader |-> "file", pos |-> lib.pos]),
       !.pc = IF lib.yields = <<>> THEN "body" ELSE "done",
       !.raised = IF lib.yields = <<>> THEN "" ELSE "RuntimeError"]

(* The with body.  Its exception is thrown into the generator at the yield: *)
(* at "yield mm" it is caught by "except Exception" (lines 34-36), at       *)
(* "yield f" it leaves the generator.                                       *)
RdBody ==
  /\ lib.fn = "get_file_reader" /\ lib.pc = "body"
  /\ lib' = IF lib.body = "ok" THEN [lib EXCEPT !.pc = "done"]
            ELSE IF lib.yields[Len(lib.yields)].reader = "mmap"
            THEN [lib EXCEPT !.pos = 0, !.pc = "yield_f"]
            ELSE [lib EXCEPT !.pc = "done", !.raised = "ValueError"]

ReaderNext ==
  \/ RdStat /\ UNCHANGED <<PoolVars, scan>>
  \/ RdOpen /\ UNCHANGED <<PoolVars, scan>>
  \/ RdMap /\ UNCHANGED <<PoolVars, scan>>
  \/ RdYieldF /\ UNCHANGED <<PoolVars, scan>>
  \/ RdBody /\ UNCHANGED <<PoolVars, scan>>

ReaderSpec == ReaderInit /\ [][ReaderNext]_vars

(* C24 as stated: get_file_reader yields a memory-mapped reader if and only *)
(* if the file's size exceeds mmap_threshold and the mapping succeeds;      *)
(* otherwise (at or below the threshold, zero length, mapping failed) it    *)
(* yields the buffered reader positioned at the start; it yields exactly    *)
(* one reader per use.                                                     *)
C24_MmapAboveThreshold ==
  (lib.use_mmap /\ lib.yields # <<>>) =>
    /\ lib.yields[1].reader = "mmap" <=>
         (lib.size > mmap_threshold /\ lib.map_ok)
    /\ lib.yields[1].reader = "file" => lib.yields[1].pos = 0
    /\ Len(lib.yields) = 1

(* ------------------------ progress_bar.py: update ---------------------- *)
(* K threads call update() M times each on one ProgressBar, and, when      *)
(* closer is set, one more thread calls finish().  n is the bar's tqdm       *)
(* counter (self._bar.n), closed that the tqdm was closed, lock the holder   *)
(* of self._lock (0: free, k + 1: the thread in finish()); for each          *)
(* updating thread, pc is its position inside update(), left the calls it    *)
(* has still to make and tmp the value of n it has read: tqdm's              *)
(* "self.n += n" is a read followed by a write.  late counts the update()    *)
(* calls made on the closed bar, cpc is the position of the thread in        *)
(* finish().                                                                 *)
BarFrame(k, m, c) ==
  [fn |-> "ProgressBar", k |-> k, m |-> m, n |-> 0, lock |-> 0,
   closed |-> FALSE, late |-> 0, cpc |-> IF c THEN "call" ELSE "none",
   pc |-> [t \in 1..k |-> "call"], left |-> [t \in 1..k |-> m],
   tmp |-> [t \in 1..k |-> 0]]

(* A threading.py pool whose shutdown() holds _executor_lock, waiting       *)
(* inside executor.shutdown.                                               *)
PoolLockHeld ==
  /\ impl = "threading"
  /\ initial_workers = 1
  /\ progress_bar = FALSE
  /\ executor = [NewExecutor EXCEPT !.shut = TRUE]
  /\ event = TRUE
  /\ lock = "B"
  /\ units = <<>>
  /\ pcA = "idle"
  /\ call = Frame(0, FALSE, TRUE)
  /\ ret = NoRet
  /\ pcB = "x_wait"
  /\ last = [op |-> "__exit__", attr |-> "", noexec |-> FALSE, raised |-> ""]
  /\ scan = NoScan

BarInit ==
  /\ LibOff \/ PoolLockHeld
  /\ \E k \in 1..MaxThreads, m \in 1..MaxUpdates, c \in BOOLEAN :
       lib = BarFrame(k, m, c)

(* Fault: update() does not take the lock. *)
BarLockFreeAlways(b) == TRUE

(* "with self._lock:" is entered when no thread holds the lock *)
BarLockFree(b) == b.lock = 0

(* update(): "with self._lock" *)
BarAcquire(t) ==
  /\ lib.fn = "ProgressBar" /\ t \in DOMAIN lib.pc
  /\ lib.pc[t] = "call" /\ lib.left[t] > 0
  /\ BarLockFree(lib)
  /\ lib' = [lib EXCEPT !.lock = t, !.pc[t] = "read"]

(* self._bar.update(n): a closed tqdm returns at once; an open one reads    *)
(* self.n ...                                                               *)
BarRead(t) ==
  /\ lib.fn = "ProgressBar" /\ t \in DOMAIN lib.pc
  /\ lib.pc[t] = "read"
  /\ lib' = IF lib.closed
            THEN [lib EXCEPT !.late = @ + 1, !.pc[t] = "release"]
            ELSE [lib EXCEPT !.tmp[t] = lib.n, !.pc[t] = "write"]

(* ... and stores self.n + 1 *)
BarWrite(t) ==
  /\ lib.fn = "ProgressBar" /\ t \in DOMAIN lib.pc
  /\ lib.pc[t] = "write"
  /\ lib' = [lib EXCEPT !.n = lib.tmp[t] + 1, !.pc[t] = "release"]

(* the end of "with self._lock"; update() returns *)
BarRelease(t) ==
  /\ lib.fn = "ProgressBar" /\ t \in DOMAIN lib.pc
  /\ lib.pc[t] = "release"
  /\ lib' = [lib EXCEPT !.lock = IF @ = t THEN 0 ELSE @,
                        !.left[t] = @ - 1, !.pc[t] = "call"]

(* finish() calls close(): "with self._lock" *)
BarCloseAcquire ==
  /\ lib.fn = "ProgressBar" /\ lib.cpc = "call"
  /\ BarLockFree(lib)
  /\ lib' = [lib EXCEPT !.lock = lib.k + 1, !.cpc = "close"]

(* close(): self._bar.close(); the lock is released *)
BarClose ==
  /\ lib.fn = "ProgressBar" /\ lib.cpc = "close"
  /\ lib' = [lib EXCEPT !.closed = TRUE, !.cpc = "done",
                        !.lock = IF @ = lib.k + 1 THEN 0 ELSE @]

BarNext ==
  \/ \E t \in 1..MaxThreads : BarAcquire(t) /\ UNCHANGED <<PoolVars, scan>>
  \/ \E t \in 1..MaxThreads : BarRead(t) /\ UNCHANGED <<PoolVars, scan>>
  \/ \E t \in 1..MaxThreads : BarWrite(t) /\ UNCHANGED <<PoolVars, scan>>
  \/ \E t \in 1..MaxThreads : BarRelease(t) /\ UNCHANGED <<PoolVars, scan>>
  \/ BarCloseAcquire /\ UNCHANGED <<PoolVars, scan>>
  \/ BarClose /\ UNCHANGED <<PoolVars, scan>>

BarSpec == BarInit /\ [][BarNext]_vars

(* Every thread has made its calls. *)
BarDone == \A t \in DOMAIN lib.pc : lib.left[t] = 0
InUpdate(t) == lib.pc[t] \in {"read", "write", "release"}

(* C25: when K threads call update() M times each, the final count is K*M   *)
(* under every interleaving (less only the calls made after finish() has    *)
(* closed the bar); a thread is inside the counter's read-modify-write only *)
(* while it holds the reporter's own lock, and the updates go on while a    *)
(* pool's lock is held.                                                     *)
C25_NoLostUpdate ==
  /\ BarDone => lib.n + lib.late = lib.k * lib.m
  /\ lib.late > 0 => lib.closed
  /\ \A t \in DOMAIN lib.pc : InUpdate(t) => lib.lock = t
  /\ lib.cpc = "close" => lib.lock = lib.k + 1
  /\ lib.n <= lib.k * lib.m

(* Two threads made two updates each, the second thread's updates coming    *)
(* between the first thread's two, while a pool's lock was held.            *)
C25_Witness ==
  /\ BarDone /\ lib.k = 2 /\ lib.m = 2 /\ lib.n = 4
  /\ lib.tmp[1] = 3 /\ lib.tmp[2] = 2
  /\ lock = "B"

(* C26 as stated: process_items returns the results in the order of the     *)
(* input items (failed items skipped), also when the units run on several   *)
(* workers and complete out of submission order.                            *)
C26_ResultsInInputOrder ==
  (CallEnded /\ ret.kind = "returned") =>
    \A j, k \in DOMAIN ret.results :
      j < k => ret.results[j].item < ret.results[k].item

(* ------------- a client that uses one context for two batches ---------- *)
(* test_thread_pool_manager_cleanup_on_exception: "with ThreadPoolManager() *)
(* as pool:" around two process_items calls.  done counts the calls that    *)
(* have returned, failed records that a unit of the first batch raised.     *)
ClientFrame == [fn |-> "client", pc |-> "enter", done |-> 0, failed |-> FALSE]

ClientInit ==
  /\ impl = "thread_pool"
  /\ initial_workers \in 1..MaxWorkers
  /\ progress_bar \in BOOLEAN
  /\ executor = NoExec
  /\ event = FALSE
  /\ lock = "free"
  /\ units = <<>>
  /\ pcA = "idle"
  /\ call = Frame(0, FALSE, TRUE)
  /\ ret = NoRet
  /\ pcB = "idle"
  /\ last = Op("", "", FALSE)
  /\ scan = NoScan
  /\ lib = ClientFrame

(* with ThreadPoolManager(initial_workers=...) as pool *)
ClientEnter ==
  /\ lib.fn = "client" /\ lib.pc = "enter"
  /\ Enter
  /\ lib' = [lib EXCEPT !.pc = "entering"]

(* __enter__, second statement *)
ClientEntered ==
  /\ lib.fn = "client" /\ lib.pc = "entering"
  /\ EnterClear
  /\ lib' = [lib EXCEPT !.pc = "call"]

(* pool.process_items(items, worker) *)
ClientCall ==
  /\ lib.fn = "client" /\ lib.pc = "call"
  /\ \E n \in 0..MaxItems : ProcessItems(n)
  /\ lib' = [lib EXCEPT !.pc = "wait"]

(* the call has returned (or its exception was caught by the test's         *)
(* "except ValueError: pass"); the second call follows the first.           *)
ClientResume ==
  /\ lib.fn = "client" /\ lib.pc = "wait"
  /\ pcA = "idle" /\ ret.kind # "none"
  /\ lib' = [lib EXCEPT !.done = @ + 1,
                        !.pc = IF lib.done = 0 THEN "call" ELSE "exit",
                        !.failed = IF lib.done = 0
                                   THEN \E u \in DOMAIN units : units[u].out = "raise"
                                   ELSE @]
  /\ UNCHANGED PoolVars

(* the end of the with block *)
ClientExit ==
  /\ lib.fn = "client" /\ lib.pc = "exit"
  /\ Exit
  /\ lib' = [lib EXCEPT !.pc = "shutting"]

(* __exit__: executor.shutdown(wait=True) is called *)
ClientShut ==
  /\ lib.fn = "client" /\ lib.pc = "shutting"
  /\ ExitShut
  /\ lib' = [lib EXCEPT !.pc = "exiting"]

ClientExited ==
  /\ lib.fn = "client" /\ lib.pc = "exiting"
  /\ ExitDone
  /\ lib' = [lib EXCEPT !.pc = "done"]

ClientNext ==
  \/ ClientEnter /\ UNCHANGED scan
  \/ ClientEntered /\ UNCHANGED scan
  \/ ClientCall /\ UNCHANGED scan
  \/ ClientResume /\ UNCHANGED scan
  \/ ClientExit /\ UNCHANGED scan
  \/ ClientShut /\ UNCHANGED scan
  \/ ClientExited /\ UNCHANGED scan
  \/ ExecutorTest /\ UNCHANGED <<scan, lib>>
  \/ LoopCheck /\ UNCHANGED <<scan, lib>>
  \/ Submit /\ UNCHANGED <<scan, lib>>
  \/ Drain /\ UNCHANGED <<scan, lib>>
  \/ Finally /\ UNCHANGED <<scan, lib>>
  \/ \E u \in DOMAIN units : UnitStart(u) /\ UNCHANGED <<scan, lib>>
  \/ \E u \in DOMAIN units, o \in Outcomes : UnitFinish(u, o) /\ UNCHANGED <<scan, lib>>

ClientSpec == ClientInit /\ [][ClientNext]_vars

(* The second call of the context has ended. *)
SecondEnded == lib.pc = "wait" /\ lib.done = 1 /\ CallEnded

(* C27: within one context, a process_items call that follows an earlier    *)
(* call (also one in which units failed) is not refused: it dispatches      *)
(* every one of its items and returns the results of all of them (one per   *)
(* item on which the worker did not raise).                                 *)
C27_UsableAfterBatch ==
  /\ SecondEnded =>
       /\ ret.kind = "returned"
       /\ ~call.noexec /\ ~call.sig
       /\ AllProcessed
       /\ OneResultEach(ret.results, Normal)
       /\ Cardinality(Normal) + Cardinality(Failed) = call.n
  /\ (lib.pc = "wait" /\ lib.done = 1) => Len(units) = Len(call.futures)

(* A unit of the first batch raised; the second batch of two has returned   *)
(* both results.                                                           *)
C27_Witness ==
  /\ SecondEnded /\ lib.failed
  /\ call.n = 2 /\ Len(ret.results) = 2

(* ---------------- claims on the scan's failure paths ------------------- *)
(* Something failed: the handlers, the count, or a handler's write. *)
ScanFailed ==
  \/ ~scan.handlers_ok
  \/ CountRaises(scan)
  \/ scan.exc # ""
  \/ (scan.wfail # 0 /\ scan.written = scan.wfail - 1 /\ ~scan.success
      /\ scan.pc \in {"finally", "done"})

(* C29 as stated: walk_directory_and_log never lets an exception escape and *)
(* finishes the progress reporter on every exit path; a failure while       *)
(* creating handlers, counting files, hashing or writing ends in an error   *)
(* message and a normal return, also when it happens before the progress    *)
(* reporter has been created.                                               *)
C29_NoExceptionEscapes ==
  ScanDone =>
    /\ scan.result = "returned None"
    /\ scan.bar = "closed"
    /\ ScanFailed => (scan.err # "" /\ ~scan.saved)

(* -------- scanner.py: should_process_file and count_files, sizes ------- *)
(* A size bound as it reaches the scanner: None, a string in the unit form  *)
(* cli.validate_size accepts and returns unchanged (bytes is the value it   *)
(* denotes: B = 1, KB = 1024), or an int.                                   *)
SizeArg(k, t, n) == [kind |-> k, text |-> t, bytes |-> n]
SizeArgs ==
  {SizeArg("none", "", 0), SizeArg("str", "1B", 1), SizeArg("str", "1KB", 1024),
   SizeArg("int", "", 0), SizeArg("int", "", 1), SizeArg("int", "", 1024)}

(* The files: test.txt holds "test content". *)
SizeFile(nm, sz, ex) == [name |-> nm, size |-> sz, exists |-> ex]
SizeFiles ==
  {SizeFile("test.txt", 12, TRUE), SizeFile("big.txt", 2000, TRUE),
   SizeFile("gone.txt", 0, FALSE)}
(* The directories count_files walks. *)
SizeDirs ==
  {<<>>, <<SizeFile("test.txt", 12, TRUE)>>,
   <<SizeFile("gone.txt", 0, FALSE), SizeFile("big.txt", 2000, TRUE)>>,
   <<SizeFile("test.txt", 12, TRUE), SizeFile("big.txt", 2000, TRUE)>>}

(* "if min_size and ...": None, "" and 0 are false *)
Truthy(b) == b.kind = "str" \/ (b.kind = "int" /\ b.bytes # 0)

(* The filter arguments besides the size bounds: exclude_paths and          *)
(* file_names are None, hold the file, or do not hold it; file_extension    *)
(* is None, ".txt" or ".pdf".                                               *)
NameArgs ==
  [exclude_paths : {"none", "hit", "miss"}, file_extension : {"none", ".txt", ".pdf"},
   file_names : {"none", "hit", "miss"}]

(* lines 77-84 *)
NameFiltersPass(a) ==
  /\ a.exclude_paths # "hit"
  /\ a.file_extension # ".pdf"
  /\ a.file_names # "miss"

(* scanner.should_process_file: "True", "False", or the exception that      *)
(* leaves it ("int < str" raises TypeError; only OSError is caught).        *)
scanner_should_process_file(f, a, mn, mx) ==
  IF ~NameFiltersPass(a) THEN "False"
  ELSE IF ~f.exists THEN "False"
  ELSE IF Truthy(mn) /\ mn.kind = "str" THEN "TypeError"
  ELSE IF Truthy(mn) /\ f.size < mn.bytes THEN "False"
  ELSE IF Truthy(mx) /\ mx.kind = "str" THEN "TypeError"
  ELSE IF Truthy(mx) /\ f.size > mx.bytes THEN "False"
  ELSE "True"

(* The frame of should_process_file(file, ...) (files holds the one file)   *)
(* or of count_files(directory, ...) (files holds the walk).                *)
SizeFrame(f, fs, a, mn, mx) ==
  [fn |-> f, pc |-> "start", files |-> fs, args |-> a, min |-> mn, max |-> mx,
   idx |-> 1, total |-> 0, result |-> "", raised |-> ""]

SizeInit ==
  /\ LibOff
  /\ \E a \in NameArgs, mn \in SizeArgs, mx \in SizeArgs :
       \/ \E f \in SizeFiles : lib = SizeFrame("should_process_file", <<f>>, a, mn, mx)
       \/ \E d \in SizeDirs : lib = SizeFrame("count_files", d, a, mn, mx)

(* should_process_file(file_path, ...), lines 68-96 *)
SzCall ==
  /\ lib.fn = "should_process_file" /\ lib.pc = "start"
  /\ LET r == scanner_should_process_file(lib.files[1], lib.args, lib.min, lib.max)
     IN lib' = IF r = "TypeError"
               THEN [lib EXCEPT !.pc = "done", !.raised = r]
               ELSE [lib EXCEPT !.pc = "done", !.result = r]

(* count_files, lines 101-109: one turn of "for file_name in files", or     *)
(* "return total"                                                          *)
SzCount ==
  /\ lib.fn = "count_files" /\ lib.pc = "start"
  /\ IF lib.idx > Len(lib.files)
     THEN lib' = [lib EXCEPT !.pc = "done"]
     ELSE LET r == scanner_should_process_file(lib.files[lib.idx], lib.args,
                                               lib.min, lib.max)
          IN lib' = IF r = "TypeError"
                    THEN [lib EXCEPT !.pc = "done", !.raised = r]
                    ELSE [lib EXCEPT !.idx = @ + 1,
                                     !.total = IF r = "True" THEN @ + 1 ELSE @]

SizeNext ==
  \/ SzCall /\ UNCHANGED <<PoolVars, scan>>
  \/ SzCount /\ UNCHANGED <<PoolVars, scan>>

SizeSpec == SizeInit /\ [][SizeNext]_vars

(* The bounds are in the form the CLI passes on: strings, or absent. *)
CliBounds == lib.min.kind \in {"none", "str"} /\ lib.max.kind \in {"none", "str"}
(* min <= size <= max in bytes, for the bounds that are given *)
WithinBytes(f) ==
  /\ lib.min.kind # "none" => lib.min.bytes <= f.size
  /\ lib.max.kind # "none" => f.size <= lib.max.bytes
Accepted(f) == NameFiltersPass(lib.args) /\ f.exists /\ WithinBytes(f)

(* C28 as stated: with size bounds in the unit form the CLI passes on,      *)
(* scanner.should_process_file and count_files do not raise and accept a    *)
(* file if and only if min <= size <= max in bytes (12-byte file: min "1B"  *)
(* accepted, min "1KB" rejected, max "1KB" accepted, max "1B" rejected).    *)
C28_SizeBoundsInBytes ==
  (CliBounds /\ lib.pc = "done") =>
    /\ lib.raised = ""
    /\ lib.fn = "should_process_file" =>
         (lib.result = "True" <=> Accepted(lib.files[1]))
    /\ lib.fn = "count_files" =>
         lib.total = Cardinality({k \in DOMAIN lib.files : Accepted(lib.files[k])})

(* ------------- claims on threading.py's executor and flag -------------- *)
(* process_items ends: it returns, or an exception leaves it. *)
CallEnds == pcA' = "idle" /\ ret'.kind # "none" /\ (pcA # "idle" \/ call' # call \/ ret' # ret)
(* process_items ends a call that went through "with self". *)
DispatchedCallEnds == pcA \in {"th_exit", "th_wait"} /\ pcA' = "idle"

(* C30 as stated: in threading.ThreadPoolManager, outside start() and       *)
(* shutdown() the executor is present only while the shutdown flag is       *)
(* clear; start() on a started pool creates no second executor; after       *)
(* process_items has returned from a non-empty batch the executor is        *)
(* released and the flag is set, and a further call returns [] without      *)
(* dispatching.                                                            *)
C30_ExecutorOnlyWhileFlagClear ==
  [][impl = "threading" =>
       /\ (lock' = "free" /\ ~executor'.none) => ~event'
       /\ (Enter /\ ~executor.none) => (executor' = executor /\ event' = event)
       /\ (CallEnds /\ call'.n > 0 /\ ret'.kind = "returned") =>
            (executor'.none /\ event')
       /\ (event /\ \E n \in 0..MaxItems : ProcessItems(n)) =>
            (ret' = Returned(<<>>) /\ pcA' = "idle" /\ executor' = executor)]_vars

(* C30, amended: the pool's own methods keep the executor and the flag      *)
(* together: an executor is created only by start() on a pool that has       *)
(* none, under the lock, and the flag is clear when start() releases the    *)
(* lock; the flag is cleared only there; an executor is released only with  *)
(* the flag set; start() on a started pool changes nothing; when a          *)
(* process_items call that entered "with self" ends, the executor is         *)
(* released and the flag set; and a call made while the flag is set returns *)
(* [] without dispatching.  Outside start() and shutdown() the flag can be  *)
(* set while the executor is present only by setting the event directly     *)
(* (pool._shutdown.set()).                                                  *)
C30_ExecutorFollowsFlag ==
  [][impl = "threading" =>
       /\ (executor.none /\ ~executor'.none) =>
            (lock = "free" /\ lock' # "free" /\ (Enter \/ WithEnter))
       /\ (lock # "free" /\ lock' = "free" /\ ~executor'.none) => ~event'
       /\ (event /\ ~event') =>
            (~executor.none /\ lock # "free" /\ lock' = "free"
             /\ (EnterClear \/ WithEnterClear))
       /\ (~executor.none /\ executor'.none) => event'
       /\ (~event /\ event' /\ ~executor'.none) => (Signal \/ lock' # "free")
       /\ (Enter /\ ~executor.none) =>
            (executor' = executor /\ event' = event /\ lock' = lock)
       /\ (WithEnter /\ ~executor.none) =>
            (executor' = executor /\ event' = event /\ lock' = lock)
       /\ DispatchedCallEnds => (executor'.none /\ event')
       /\ (event /\ \E n \in 0..MaxItems : ProcessItems(n)) =>
            (ret' = Returned(<<>>) /\ pcA' = "idle" /\ executor' = executor
             /\ call'.futures = <<>>)]_vars

(* A batch of two has returned its two results: the executor is released,   *)
(* the flag set.                                                           *)
C30_Witness ==
  /\ impl = "threading" /\ CallEnded /\ call.n = 2 /\ Len(ret.results) = 2
  /\ executor.none /\ event /\ lock = "free" /\ ~call.sig
=============================================================================
